---- MODULE Spec2Model ----
(***************************************************************************)
(* A model of coingecko-selector.py: the rate-limited fetch, the denylist  *)
(* filter, the per-token metrics, the mean-relative scoring and top-30     *)
(* selection, the four-category intersection analysis, and the two         *)
(* orchestrating handlers rank_tier and rank_all_tiers.                    *)
(*                                                                         *)
(* Python values.  A dict is a TLA+ record (a function on its keys), a     *)
(* list is a sequence (wrapped by List where None may stand in its place), *)
(* None is the value None below, a str is a sequence of one-character      *)
(* strings.  Floats are modelled as exact rationals                        *)
(* [n, d] with d > 0; the IEEE results of a pandas division by zero are    *)
(* the values NaN, PosInf and NegInf.  An HTTP body is a JSON value.       *)
(***************************************************************************)
EXTENDS Integers, Sequences, FiniteSets, TLC

VARIABLES
    pc,                \* position of the running handler
    op,                \* "idle", "rank_tier" or "rank_all_tiers"
    page,              \* params["page"] of the token page being fetched
    fpc,               \* position inside fetch_with_rate_limit
    endpoint,          \* the url being fetched
    reqs,              \* requests.get calls of the current fetch, with their time
    response,          \* the last response received
    clock,             \* time elapsed in the current fetch
    ret,               \* return value of the current fetch
    global_data,       \* rank_tier / rank_all_tiers: global_data
    call_log,          \* the fetches the handler has started, in order
    page_log,          \* each page fetched and what the fetch returned, in order
    top_tokens,        \* what get_top_tokens returned last
    all_tokens,        \* rank_all_tiers: all_tokens
    tokens_metrics,    \* list of calculate_metrics results
    ranked_tokens,     \* the DataFrame returned by rank_tokens
    additional_metrics,\* list of calculate_additional_metrics rows
    cats,              \* the four top-30 name sets of visualize_additional_metrics
    parts,             \* tokens_in_all_four, tokens_in_three, tokens_in_two
    written,           \* result headings and failure messages given to st.write
    raised,            \* the exception that left the handler, or "none"
    metric_calls,      \* calls of calculate_metrics and calculate_additional_metrics
    fetched,           \* get_top_tokens: the list returned by the fetch
    token,             \* the token given to the metric functions
    computed           \* what the metric functions returned for it

vars == <<pc, op, page, fpc, endpoint, reqs, response, clock, ret, global_data,
          call_log, page_log, top_tokens, all_tokens, tokens_metrics, ranked_tokens, additional_metrics,
          cats, parts, written, raised, metric_calls, fetched, token, computed>>

fetchVars == <<fpc, endpoint, reqs, response, clock, ret>>
runVars == <<pc, op, page, global_data, call_log, page_log, top_tokens, all_tokens, written,
            raised, metric_calls>>
resultVars == <<tokens_metrics, ranked_tokens, additional_metrics, cats, parts>>
unitVars == <<fetched, token, computed>>

----------------------------------------------------------------------------
(* Python values *)

None == [py_none |-> TRUE]

Num(x) == [num |-> x]

\* a list that may stand where None may: the list s
List(s) == [py_list |-> s]

\* bool(v) of a dict, a list or None
Truthy(v) ==
    /\ v # None
    /\ IF "py_list" \in DOMAIN v THEN v.py_list # <<>> ELSE DOMAIN v # {}

\* d.get(k, default)
Get(d, k, default) == IF k \in DOMAIN d THEN d[k] ELSE default

Range(s) == {s[i] : i \in DOMAIN s}

RECURSIVE SumSeq(_)
SumSeq(s) == IF s = <<>> THEN 0 ELSE Head(s) + SumSeq(Tail(s))

----------------------------------------------------------------------------
(* Exact rationals for float arithmetic *)

Rat(a, b) == [n |-> a, d |-> b]

Zero == Rat(0, 1)

\* a / b on two Python numbers: ZeroDivisionError when b = 0
ZeroDivision == [exception |-> "ZeroDivisionError"]

PyDiv(a, b) ==
    IF b = 0 THEN ZeroDivision
    ELSE IF b > 0 THEN Rat(a, b) ELSE Rat(-a, -b)

RatLess(x, y) == x.n * y.d < y.n * x.d

RatEq(x, y) == x.n * y.d = y.n * x.d

RatAdd(x, y) == Rat(x.n * y.d + y.n * x.d, x.d * y.d)

RatSub(x, y) == Rat(x.n * y.d - y.n * x.d, x.d * y.d)

RECURSIVE Gcd(_, _)
Gcd(a, b) == IF b = 0 THEN a ELSE Gcd(b, a % b)

Abs(a) == IF a < 0 THEN -a ELSE a

Norm(x) ==
    LET g == Gcd(Abs(x.n), x.d)
    IN  Rat(x.n \div g, x.d \div g)

----------------------------------------------------------------------------
(* str *)

\* str.lower() on one character
LowerChar(c) ==
    CASE c = "A" -> "a"
      [] c = "B" -> "b"
      [] c = "C" -> "c"
      [] c = "D" -> "d"
      [] c = "E" -> "e"
      [] c = "F" -> "f"
      [] c = "G" -> "g"
      [] c = "H" -> "h"
      [] c = "I" -> "i"
      [] c = "J" -> "j"
      [] c = "K" -> "k"
      [] c = "L" -> "l"
      [] c = "M" -> "m"
      [] c = "N" -> "n"
      [] c = "O" -> "o"
      [] c = "P" -> "p"
      [] c = "Q" -> "q"
      [] c = "R" -> "r"
      [] c = "S" -> "s"
      [] c = "T" -> "t"
      [] c = "U" -> "u"
      [] c = "V" -> "v"
      [] c = "W" -> "w"
      [] c = "X" -> "x"
      [] c = "Y" -> "y"
      [] c = "Z" -> "z"
      [] OTHER -> c

\* str.lower()
Lower(s) == [i \in DOMAIN s |-> LowerChar(s[i])]

\* the denylist of get_top_tokens
stablecoins == {
    <<"u","s","d","t">>,
    <<"u","s","d","c">>,
    <<"d","a","i">>,
    <<"b","u","s","d">>,
    <<"u","s","t">>,
    <<"f","i","r","s","t"," ","d","i","g","i","t","a","l"," ","u","s","d">>,
    <<"l","i","d","o"," ","s","t","a","k","e","d"," ","e","t","h","e","r">>,
    <<"w","e","t","h">>,
    <<"l","2"," ","s","t","a","n","d","a","r","d"," ","b","r","i","d","g","e","d"," ","w","e","t","h"," ","(","b","a","s","e",")">>,
    <<"a","r","b","i","t","r","u","m"," ","b","r","i","d","g","e","d"," ","w","e","t","h"," ","(","a","r","b","i","t","r","u","m"," ","o","n","e",")">>,
    <<"a","r","b","i","t","r","u","m"," ","b","r","i","d","g","e","d"," ","w","b","t","c"," ","(","a","r","b","i","t","r","u","m"," ","o","n","e",")">>,
    <<"c","o","i","n","b","a","s","e"," ","w","r","a","p","p","e","d"," ","b","t","c">>,
    <<"k","e","l","p"," ","d","a","o"," ","r","e","s","t","a","k","e","d"," ","e","t","h">>,
    <<"e","t","h","e","r","e","u","m","p","o","w">>,
    <<"e","t","h","e","r",".","f","i"," ","s","t","a","k","e","d"," ","e","t","h">>,
    <<"w","r","a","p","p","e","d"," ","s","t","e","t","h">>,
    <<"s","w","e","l","l"," ","e","t","h","e","r","e","u","m">>,
    <<"j","u","p","i","t","e","r"," ","s","t","a","k","e","d"," ","s","o","l">>,
    <<"b","i","t","c","o","i","n"," ","a","v","a","l","a","n","c","h","e"," ","b","r","i","d","g","e","d"," ","(","b","t","c",".","b",")">>,
    <<"l","o","m","b","a","r","d"," ","s","t","a","k","e","d"," ","b","t","c">>,
    <<"b","r","i","d","g","e","d"," ","u","s","d","c"," ","(","p","o","l","y","g","o","n"," ","p","o","s"," ","b","r","i","d","g","e",")">>,
    <<"u","s","u","a","l"," ","u","s","d">>,
    <<"u","s","d","d">>,
    <<"p","a","y","p","a","l"," ","u","s","d">>,
    <<"t","r","u","e","u","s","d">>,
    <<"u","s","d","b">>,
    <<"m","a","r","i","n","a","d","e"," ","s","t","a","k","e","d"," ","s","o","l">>,
    <<"w","r","a","p","p","e","d"," ","b","i","t","c","o","i","n">>,
    <<"s","o","l","v"," ","p","r","o","t","o","c","o","l"," ","s","o","l","v","b","t","c">>,
    <<"b","i","n","a","n","c","e"," ","s","t","a","k","e","d"," ","s","o","l">>,
    <<"s","o","l","a","y","e","r"," ","s","t","a","k","e","d"," ","s","o","l">>,
    <<"c","w","b","t","c">>,
    <<"p","o","l","y","g","o","n"," ","b","r","i","d","g","e","d"," ","w","b","t","c"," ","(","p","o","l","y","g","o","n"," ","p","o","s",")">>,
    <<"e","t","h","e","r",".","f","i"," ","s","t","a","k","e","d"," ","b","t","c">>,
    <<"t","b","t","c">>,
    <<"u","s","d","x",".","m","o","n","e","y"," ","u","s","d","x">>,
    <<"b","i","n","a","n","c","e","-","p","e","g"," ","d","o","g","e","c","o","i","n">>
}

----------------------------------------------------------------------------
(* fetch_with_rate_limit *)

HTTP_OK == 200

HTTP_TOO_MANY_REQUESTS == 429

COOLDOWN == 60

\* line 13: the first response asks for the sleep and the second request
ShouldRetryMutAnyError(r) == r.status_code # HTTP_OK

ShouldRetry(r) == r.status_code = HTTP_TOO_MANY_REQUESTS

\* lines 18-22: the value returned for the last response received
FetchResult(r) == IF r.status_code = HTTP_OK THEN r.json ELSE None

----------------------------------------------------------------------------
(* get_global_data, get_top_tokens *)

\* lines 28-32, on the value global_data returned by the fetch
get_global_data(g) ==
    IF Truthy(g) /\ "data" \in DOMAIN g THEN g["data"] ELSE None

\* line 63: the condition under which a token stays in the list
KeepTokenMutSymbolOnly(t) == Lower(t.symbol) \notin stablecoins

KeepToken(t) ==
    Lower(t.symbol) \notin stablecoins /\ Lower(t.name) \notin stablecoins

\* lines 46-66, on the value tokens returned by the fetch
get_top_tokens(tokens) ==
    IF Truthy(tokens) THEN List(SelectSeq(tokens.py_list, KeepToken)) ELSE tokens

----------------------------------------------------------------------------
(* calculate_metrics, calculate_additional_metrics *)

Raise(e) == [raised |-> e]

Return(v) == [raised |-> "none", value |-> v]

K7D == "price_change_percentage_7d_in_currency"

\* "a / b if b > 0 else 0" (lines 71, 77, 84)
RatioOrZeroMutNonNegative(a, b) == IF b >= 0 THEN PyDiv(a, b) ELSE Zero

RatioOrZero(a, b) == IF b > 0 THEN PyDiv(a, b) ELSE Zero

\* "x if x > 0 else 1" (lines 97-100)
PositiveOrOneMutNonZero(x) == IF x # 0 THEN x ELSE 1

PositiveOrOne(x) == IF x > 0 THEN x ELSE 1

\* "v or 0" on a number or None (line 74)
OrZero(v) == IF v = None THEN 0 ELSE v.num

calculate_metrics(t, gd) ==
    LET pvr == RatioOrZero(t.total_volume, t.current_price)
        price_change_percentage_7d == OrZero(Get(t, K7D, None))
        rvol == RatioOrZero(t.total_volume, t.market_cap)
        momentum == PyDiv(price_change_percentage_7d, 100)
    IN  IF pvr = ZeroDivision \/ rvol = ZeroDivision
        THEN Raise("ZeroDivisionError")
        ELSE IF "total_volume" \notin DOMAIN gd
                \/ "usd" \notin DOMAIN gd["total_volume"]
        THEN Raise("KeyError")
        ELSE LET global_volume == gd["total_volume"]["usd"]
                 vsi == RatioOrZero(t.total_volume, global_volume)
             IN  IF vsi = ZeroDivision
                 THEN Raise("ZeroDivisionError")
                 ELSE Return([token |-> t.name, pvr |-> pvr, rvol |-> rvol,
                              momentum |-> momentum, vsi |-> vsi])

calculate_additional_metrics(t) ==
    LET current_price == PositiveOrOne(t.current_price)
        ath_price == PositiveOrOne(t.ath)
        total_volume == PositiveOrOne(t.total_volume)
        market_cap == PositiveOrOne(t.market_cap)
        potential_gains == PyDiv(ath_price, current_price)
        price_change_7d == Get(t, K7D, Num(0))
        mc_vol_ratio == PyDiv(market_cap, total_volume)
    IN  IF potential_gains = ZeroDivision \/ mc_vol_ratio = ZeroDivision
        THEN Raise("ZeroDivisionError")
        ELSE Return([potential_gains |-> potential_gains,
                     price_change_7d |-> price_change_7d,
                     mc_vol_ratio |-> mc_vol_ratio])

----------------------------------------------------------------------------
(* rank_tokens *)

\* IEEE results of a float division by zero
NaN == Rat(0, 0)

PosInf == Rat(1, 0)

NegInf == Rat(-1, 0)

\* Series / float on finite values (line 118): no exception, inf or nan instead
NpDiv(x, y) ==
    IF y.n = 0
    THEN (IF x.n > 0 THEN PosInf ELSE IF x.n < 0 THEN NegInf ELSE NaN)
    ELSE IF y.n > 0 THEN Rat(x.n * y.d, x.d * y.n)
    ELSE Rat(-(x.n * y.d), -(x.d * y.n))

Column(df, c) == [i \in DOMAIN df |-> df[i][c]]

RECURSIVE SumRange(_, _, _)
SumRange(s, lo, hi) ==
    IF lo > hi THEN Zero
    ELSE IF lo = hi THEN s[lo]
    ELSE LET mid == (lo + hi) \div 2
         IN  Norm(RatAdd(SumRange(s, lo, mid), SumRange(s, mid + 1, hi)))

\* Series.sum()
RatSum(s) == SumRange(s, 1, Len(s))

\* Series.mean() of a non-empty column
Mean(s) == LET total == RatSum(s) IN Norm(Rat(total.n, total.d * Len(s)))

\* "1 if x < mean else -1" (lines 121, 123)
ScoreBelowMutNonStrict(x, m) == IF RatLess(m, x) THEN -1 ELSE 1

ScoreBelow(x, m) == IF RatLess(x, m) THEN 1 ELSE -1

\* "1 if x > mean else -1" (lines 122, 125)
ScoreAbove(x, m) == IF RatLess(m, x) THEN 1 ELSE -1

\* "1 if x < 0 else -1" on a pvrd value, which may be inf or nan (line 124)
ScoreNegativeMutNonPositive(x) == IF x.n <= 0 THEN 1 ELSE -1

ScoreNegative(x) == IF x.n < 0 THEN 1 ELSE -1

\* line 128: the sum of the five score columns
FinalScoreMutDropsVsi(r) ==
    r.pvr_score + r.rvol_score + r.momentum_score + r.pvrd_score

FinalScore(r) ==
    r.pvr_score + r.rvol_score + r.momentum_score + r.pvrd_score + r.vsi_score

\* lines 115-128: the DataFrame with its pvrd and score columns; index is the
\* DataFrame's RangeIndex, the row's position in tokens_metrics
ScoreMetrics(tm) ==
    LET mean_pvr == Mean(Column(tm, "pvr"))
        mean_rvol == Mean(Column(tm, "rvol"))
        mean_momentum == Mean(Column(tm, "momentum"))
        mean_vsi == Mean(Column(tm, "vsi"))
        Scored(i) ==
            LET r == tm[i]
                pvrd == NpDiv(RatSub(r.pvr, mean_pvr), mean_pvr)
            IN  [index |-> i - 1, token |-> r.token, pvr |-> r.pvr,
                 rvol |-> r.rvol, momentum |-> r.momentum, vsi |-> r.vsi,
                 pvrd |-> pvrd,
                 pvr_score |-> ScoreBelow(r.pvr, mean_pvr),
                 rvol_score |-> ScoreAbove(r.rvol, mean_rvol),
                 momentum_score |-> ScoreBelow(r.momentum, mean_momentum),
                 pvrd_score |-> ScoreNegative(pvrd),
                 vsi_score |-> ScoreAbove(r.vsi, mean_vsi)]
        WithFinalScore(r) == r @@ [final_score |-> FinalScore(r)]
    IN  [i \in DOMAIN tm |-> WithFinalScore(Scored(i))]

\* descending order of final_score, equal scores in their original order
SortDescMutAscending(df) ==
    LET n == Len(df)
        pos == [i \in 1..n |->
                    Cardinality({j \in 1..n :
                        \/ df[j].final_score < df[i].final_score
                        \/ df[j].final_score = df[i].final_score /\ j < i}) + 1]
    IN  [p \in 1..n |-> df[CHOOSE i \in 1..n : pos[i] = p]]

SortDesc(df) ==
    LET n == Len(df)
        pos == [i \in 1..n |->
                    Cardinality({j \in 1..n :
                        \/ df[j].final_score > df[i].final_score
                        \/ df[j].final_score = df[i].final_score /\ j < i}) + 1]
    IN  [p \in 1..n |-> df[CHOOSE i \in 1..n : pos[i] = p]]

SwapAt(s, k) ==
    [i \in DOMAIN s |-> IF i = k THEN s[k + 1] ELSE IF i = k + 1 THEN s[k] ELSE s[i]]

\* sort_values(by='final_score', ascending=False) with the default
\* kind='quicksort', which is not a stable sort: rows with equal final_score
\* come out in an order pandas does not determine.  The outcomes are the
\* order that keeps equal rows as they were, and that order with the equal
\* rows at positions k and k + 1 exchanged, for any such k.
sort_values(df) ==
    LET s == SortDesc(df)
    IN  {s} \cup {SwapAt(s, k) :
                    k \in {j \in 1..(Len(s) - 1) : s[j].final_score = s[j + 1].final_score}}

TOP_N == 30

Min(a, b) == IF a < b THEN a ELSE b

\* DataFrame.head(n)
headMutOneShort(df, n) == SubSeq(df, 1, Min(n - 1, Len(df)))

head(df, n) == SubSeq(df, 1, Min(n, Len(df)))

\* lines 114-133: the DataFrames the call may return
rank_tokens(tm) == {head(s, TOP_N) : s \in sort_values(ScoreMetrics(tm))}

----------------------------------------------------------------------------
(* visualize_additional_metrics: the set analysis of lines 428-467 *)

tokens_in_all_four(c) == c[1] \cap c[2] \cap c[3] \cap c[4]

tokens_in_threeMutKeepsAllFour(c) ==
    (c[1] \cap c[2] \cap c[3]) \cup (c[1] \cap c[2] \cap c[4])
        \cup (c[2] \cap c[3] \cap c[4]) \cup (c[1] \cap c[3] \cap c[4])

tokens_in_three(c) ==
    ((c[1] \cap c[2] \cap c[3]) \cup (c[1] \cap c[2] \cap c[4])
        \cup (c[2] \cap c[3] \cap c[4]) \cup (c[1] \cap c[3] \cap c[4]))
    \ tokens_in_all_four(c)

tokens_in_twoMutMissesPair(c) ==
    (((c[1] \cap c[2]) \cup (c[1] \cap c[3]) \cup (c[1] \cap c[4])
        \cup (c[2] \cap c[3]) \cup (c[2] \cap c[4]))
        \ tokens_in_all_four(c)) \ tokens_in_three(c)

tokens_in_two(c) ==
    (((c[1] \cap c[2]) \cup (c[1] \cap c[3]) \cup (c[1] \cap c[4])
        \cup (c[2] \cap c[3]) \cup (c[2] \cap c[4]) \cup (c[3] \cap c[4]))
     \ tokens_in_all_four(c)) \ tokens_in_three(c)

Partitions(c) ==
    [all_four |-> tokens_in_all_four(c), three |-> tokens_in_three(c),
     two |-> tokens_in_two(c)]

\* sort_values(by=...).head(30) of lines 377, 394 and 411, as the sets of rows
\* it may keep: every row when there are at most 30, and otherwise any 30 rows
\* that no row left out comes before (the sort is not stable, so rows with
\* equal keys at the cut-off may fall either side)
TopSets(df, before) ==
    IF Len(df) <= TOP_N THEN {DOMAIN df}
    ELSE {s \in SUBSET DOMAIN df :
            /\ Cardinality(s) = TOP_N
            /\ \A i \in s : \A j \in DOMAIN df \ s : <<j, i>> \notin before}

\* descending "Potential Gains (x)"
GainsBefore(a, b) == RatLess(b.potential_gains, a.potential_gains)

\* descending "7-Day Price Change (%)"; None is NaN in the frame and sorts last
ChangeBefore(a, b) ==
    /\ a.price_change_7d # None
    /\ b.price_change_7d = None \/ b.price_change_7d.num < a.price_change_7d.num

\* ascending "MC/Volume Ratio"
RatioBefore(a, b) == RatLess(a.mc_vol_ratio, b.mc_vol_ratio)

ByGains(df) == {p \in (DOMAIN df) \X (DOMAIN df) : GainsBefore(df[p[1]], df[p[2]])}

ByChange(df) == {p \in (DOMAIN df) \X (DOMAIN df) : ChangeBefore(df[p[1]], df[p[2]])}

ByRatio(df) == {p \in (DOMAIN df) \X (DOMAIN df) : RatioBefore(df[p[1]], df[p[2]])}

TokenColumn(df, s) == {df[i].Token : i \in s}

\* lines 377-429: the four top-30 name sets the analysis may be given
TopCategories(df, ranked) ==
    {<<TokenColumn(df, s1), TokenColumn(df, s2), TokenColumn(df, s3),
       {ranked[i].token : i \in DOMAIN head(ranked, TOP_N)}>> :
        s1 \in TopSets(df, ByGains(df)), s2 \in TopSets(df, ByChange(df)),
        s3 \in TopSets(df, ByRatio(df))}

----------------------------------------------------------------------------
(* States before any handler runs *)

FetchIdle ==
    /\ fpc = "idle"
    /\ endpoint = "none"
    /\ reqs = <<>>
    /\ response = None
    /\ clock = 0
    /\ ret = None

RunIdle ==
    /\ op = "idle"
    /\ page = 0
    /\ global_data = None
    /\ call_log = <<>>
    /\ page_log = <<>>
    /\ top_tokens = None
    /\ all_tokens = <<>>
    /\ written = <<>>
    /\ raised = "none"
    /\ metric_calls = 0

ResultsEmpty ==
    /\ tokens_metrics = <<>>
    /\ ranked_tokens = <<>>
    /\ additional_metrics = <<>>
    /\ cats = <<>>
    /\ parts = None

UnitEmpty ==
    /\ fetched = None
    /\ token = None
    /\ computed = None

----------------------------------------------------------------------------
(* calculate_metrics and calculate_additional_metrics on one token *)

MaxAbs == 2

Vals == (-MaxAbs)..MaxAbs

NumericTokens ==
    [name : {<<"t">>}, symbol : {<<"t">>}, current_price : Vals,
     total_volume : Vals, market_cap : Vals, ath : Vals]

With7d(t, v) == [k \in DOMAIN t \cup {K7D} |-> IF k = K7D THEN v ELSE t[k]]

MetricTokens ==
    NumericTokens
        \cup {With7d(t, v) : t \in NumericTokens, v \in {None} \cup {Num(x) : x \in Vals}}

GlobalVolumes == {[total_volume |-> [usd |-> v]] : v \in Vals}

InitMetrics ==
    /\ pc = "calculate"
    /\ token \in MetricTokens
    /\ global_data \in GlobalVolumes
    /\ computed = None
    /\ fetched = None
    /\ op = "idle" /\ page = 0 /\ page_log = <<>> /\ all_tokens = <<>>
    /\ top_tokens = None /\ call_log = <<>>
    /\ written = <<>> /\ raised = "none" /\ metric_calls = 0
    /\ FetchIdle
    /\ ResultsEmpty

CalculateMetrics ==
    /\ pc = "calculate"
    /\ computed' = [metrics |-> calculate_metrics(token, global_data),
                    additional |-> calculate_additional_metrics(token)]
    /\ pc' = "calculated"
    /\ UNCHANGED <<fetched, token, fetchVars, resultVars, op, page, global_data,
                   call_log, page_log, top_tokens, all_tokens, written, raised,
                   metric_calls>>

NextMetrics == CalculateMetrics

SpecMetrics == InitMetrics /\ [][NextMetrics]_vars

\* is q the quotient a / b when b > 0, and 0 otherwise
QuotientOrZero(q, a, b) ==
    /\ q.d > 0
    /\ IF b <= 0 THEN q.n = 0 ELSE q.n * b = a * q.d

OneIfNotPositive(x) == IF x <= 0 THEN 1 ELSE x

\* is q the quotient a' / b' of the substituted values
SubstitutedQuotient(q, a, b) ==
    /\ q.d > 0
    /\ q.n * OneIfNotPositive(b) = OneIfNotPositive(a) * q.d

\* C10: for every token with numeric fields and every global volume, pvr, rvol
\* and vsi are 0 when their denominator is <= 0 and the plain quotient
\* otherwise; potential_gains and mc_vol_ratio are the quotients of the values
\* with 1 substituted for any that is <= 0; nothing raises, no value is
\* undefined, and potential_gains and mc_vol_ratio are never negative.
C10_GuardedRatios ==
    pc = "calculated" =>
        /\ computed.metrics.raised = "none"
        /\ computed.additional.raised = "none"
        /\ LET m == computed.metrics.value
               a == computed.additional.value
           IN  /\ QuotientOrZero(m.pvr, token.total_volume, token.current_price)
               /\ QuotientOrZero(m.rvol, token.total_volume, token.market_cap)
               /\ QuotientOrZero(m.vsi, token.total_volume,
                                 global_data["total_volume"]["usd"])
               /\ SubstitutedQuotient(a.potential_gains, token.ath, token.current_price)
               /\ SubstitutedQuotient(a.mc_vol_ratio, token.market_cap, token.total_volume)
               /\ a.potential_gains.n >= 0
               /\ a.mc_vol_ratio.n >= 0

C10_Witness ==
    /\ pc = "calculated"
    /\ token.current_price = 0
    /\ token.market_cap < 0
    /\ token.total_volume > 0
    /\ token.ath > 1
    /\ global_data["total_volume"]["usd"] = 0
    /\ computed.metrics.raised = "none"
    /\ computed.metrics.value.pvr = Zero
    /\ computed.metrics.value.rvol = Zero
    /\ computed.metrics.value.vsi = Zero
    /\ computed.additional.value.potential_gains = Rat(token.ath, 1)
    /\ computed.additional.value.mc_vol_ratio = Rat(1, token.total_volume)


\* the 7-day change the token carries: 0 when the field is missing or null
SevenDayChangeOrZero(t) ==
    IF K7D \in DOMAIN t /\ t[K7D] # None THEN t[K7D].num ELSE 0

\* C11: for every token, calculate_additional_metrics returns a numeric
\* price_change_7d, the token's 7-day change when it is present and 0 when the
\* field is missing or null, and momentum is that change over 100 (so 0 in
\* both of those cases).
C11_NumericPriceChange ==
    pc = "calculated" =>
        /\ computed.additional.value.price_change_7d = Num(SevenDayChangeOrZero(token))
        /\ computed.metrics.value.momentum.d > 0
        /\ computed.metrics.value.momentum.n * 100
                = SevenDayChangeOrZero(token) * computed.metrics.value.momentum.d

\* a token whose 7-day change is null
C11_Witness ==
    /\ pc = "calculated"
    /\ K7D \in DOMAIN token
    /\ token[K7D] = None
    /\ computed.additional.raised = "none"
    /\ computed.additional.value.price_change_7d = None
    /\ computed.metrics.value.momentum.n = 0
----------------------------------------------------------------------------
(* rank_tokens on one batch of metrics *)

Letters ==
    <<"a", "b", "c", "d", "e", "f", "g", "h", "i", "j", "k", "l", "m",
      "n", "o", "p", "q", "r", "s", "t", "u", "v", "w", "x", "y", "z">>

\* a name for the token at position i of a batch
TokenName(i) == <<Letters[((i - 1) \div 26) + 1], Letters[((i - 1) % 26) + 1]>>

PvrVals == {-10, 0, 10, 20, 30}

\* rvol, momentum, vsi
OtherVals ==
    {<<Rat(0, 1), Rat(-1, 100), Rat(0, 1)>>,
     <<Rat(1, 2), Rat(-1, 100), Rat(1, 2)>>,
     <<Rat(0, 1), Rat(5, 100), Rat(1, 3)>>}

MetricRows ==
    {[pvr |-> Rat(p, 1), rvol |-> o[1], momentum |-> o[2], vsi |-> o[3]] :
        p \in PvrVals, o \in OtherVals}

Named(rows) ==
    [i \in DOMAIN rows |->
        [token |-> TokenName(i), pvr |-> rows[i].pvr, rvol |-> rows[i].rvol,
         momentum |-> rows[i].momentum, vsi |-> rows[i].vsi]]

\* every batch of at most MaxVaried rows
MaxVaried == 3

VariedBatch(b) ==
    \E n \in 1..MaxVaried : \E rows \in [1..n -> MetricRows] : b = Named(rows)

\* batches of about TOP_N rows, up to MaxBatch: a rows of one kind, then rows
\* of another
MaxBatch == 31

BlockRows ==
    {r \in MetricRows : r.pvr.n \in {10, 30} /\ r.momentum.n = -1}

BlockBatch(b) ==
    \E n \in (TOP_N - 2)..MaxBatch : \E a \in 0..(n - 1) :
        \E ra \in BlockRows, rb \in BlockRows :
            b = Named([i \in 1..n |-> IF i <= a THEN ra ELSE rb])

InitRank ==
    /\ pc = "rank"
    /\ VariedBatch(tokens_metrics) \/ BlockBatch(tokens_metrics)
    /\ ranked_tokens = <<>>
    /\ additional_metrics = <<>> /\ cats = <<>> /\ parts = None
    /\ FetchIdle
    /\ RunIdle
    /\ UnitEmpty

RankTokens ==
    /\ pc = "rank"
    /\ ranked_tokens' \in rank_tokens(tokens_metrics)
    /\ pc' = "ranked"
    /\ UNCHANGED <<tokens_metrics, additional_metrics, cats, parts, fetchVars,
                   op, page, global_data, call_log, page_log, top_tokens,
                   all_tokens, written, raised, metric_calls, unitVars>>

NextRank == RankTokens

SpecRank == InitRank /\ [][NextRank]_vars

\* x < total / n and x > total / n, as n * x against total
BelowMean(x, total, n) == RatLess(Rat(n * x.n, x.d), total)

AboveMean(x, total, n) == RatLess(total, Rat(n * x.n, x.d))

ComponentScores ==
    {"pvr_score", "rvol_score", "momentum_score", "pvrd_score", "vsi_score"}

Rows(df) == {df[p] : p \in DOMAIN df}

C5_OddFinalScore ==
    pc = "ranked" =>
        \A r \in Rows(ranked_tokens) :
            /\ r.final_score = r.pvr_score + r.rvol_score + r.momentum_score
                                + r.pvrd_score + r.vsi_score
            /\ r.final_score \in {-5, -3, -1, 1, 3, 5}

C5_Witness ==
    /\ pc = "ranked"
    /\ Len(ranked_tokens) = Len(tokens_metrics)
    /\ \E r \in Rows(ranked_tokens) : r.final_score = 5
    /\ \E r \in Rows(ranked_tokens) : r.final_score = -5
    /\ \E r \in Rows(ranked_tokens) : r.final_score = 1

\* the positions of tokens_metrics that were returned, and those left out
Kept == {r.index + 1 : r \in Rows(ranked_tokens)}

Dropped == DOMAIN tokens_metrics \ Kept

\* the lowest final_score returned and the highest left out (-5 if none is)
LowestKept ==
    CHOOSE v \in {r.final_score : r \in Rows(ranked_tokens)} :
        \A r \in Rows(ranked_tokens) : v <= r.final_score

HighestDropped ==
    LET scored == ScoreMetrics(tokens_metrics)
        left == {scored[i].final_score : i \in Dropped}
    IN  IF left = {} THEN -5 ELSE CHOOSE v \in left : \A w \in left : w <= v

\* C6: for every non-empty batch of n tokens rank_tokens returns exactly
\* min(30, n) tokens, each of them a token of the batch, and no token left out
\* has a final_score strictly greater than a token returned; a batch of fewer
\* than 30 tokens is returned whole.
C6_TopThirty ==
    pc = "ranked" =>
        LET n == Len(tokens_metrics)
        IN  /\ Len(ranked_tokens) = IF n < 30 THEN n ELSE 30
            /\ Cardinality(Kept) = Len(ranked_tokens)
            /\ Kept \subseteq 1..n
            /\ \A r \in Rows(ranked_tokens) :
                    /\ r.token = tokens_metrics[r.index + 1].token
                    /\ r.pvr = tokens_metrics[r.index + 1].pvr
            /\ HighestDropped <= LowestKept
            /\ n < 30 => Kept = 1..n

C6_Witness ==
    /\ pc = "ranked"
    /\ Len(tokens_metrics) = 31
    /\ Len(ranked_tokens) = 30
    /\ Dropped # {}
    /\ HighestDropped < LowestKept

\* C7 as claimed: the selection is a stable sort by final_score descending:
\* tokens with equal final_score appear in fetch order, and of a tied group
\* that straddles the cut-off the earliest in fetch order are kept.
C7_StableSelection ==
    pc = "ranked" =>
        LET scored == ScoreMetrics(tokens_metrics)
        IN  /\ \A p \in 1..(Len(ranked_tokens) - 1) :
                /\ ranked_tokens[p].final_score >= ranked_tokens[p + 1].final_score
                /\ ranked_tokens[p].final_score = ranked_tokens[p + 1].final_score
                    => ranked_tokens[p].index < ranked_tokens[p + 1].index
            /\ \A i \in Dropped : \A r \in Rows(ranked_tokens) :
                scored[i].final_score = r.final_score => r.index + 1 < i

\* C7 as amended: the selection is a sort by final_score descending with no
\* order promised among equal scores: final_score never increases along the
\* output, and no token left out scores more than a token returned.
C7_DescendingOrder ==
    pc = "ranked" =>
        /\ \A p \in 1..(Len(ranked_tokens) - 1) :
            ranked_tokens[p].final_score >= ranked_tokens[p + 1].final_score
        /\ HighestDropped <= ranked_tokens[Len(ranked_tokens)].final_score

\* a tied group across the cut-off, of which a later token was kept and an
\* earlier one left out
C7_Witness ==
    /\ pc = "ranked"
    /\ Len(tokens_metrics) > 30
    /\ LET scored == ScoreMetrics(tokens_metrics)
       IN  \E i \in Dropped : \E r \in Rows(ranked_tokens) :
                scored[i].final_score = r.final_score /\ i < r.index + 1
    /\ ranked_tokens[1].final_score > ranked_tokens[Len(ranked_tokens)].final_score


\* C14: in every batch whose mean pvr is positive each token's pvrd_score
\* equals its pvr_score, so the two together contribute +2 or -2; and a batch
\* of a single token scores -1 on pvr, rvol, momentum and vsi.
C14_PvrdFollowsPvr ==
    pc = "ranked" =>
        \A total \in {RatSum(Column(tokens_metrics, "pvr"))} :
            /\ (total.d > 0 /\ total.n > 0) =>
                \A r \in Rows(ranked_tokens) :
                    /\ r.pvrd_score = r.pvr_score
                    /\ r.pvr_score + r.pvrd_score \in {2, -2}
            /\ Len(tokens_metrics) = 1 =>
                \A r \in Rows(ranked_tokens) :
                    /\ r.pvr_score = -1
                    /\ r.rvol_score = -1
                    /\ r.momentum_score = -1
                    /\ r.vsi_score = -1

\* a batch of positive mean pvr with a token below the mean, one at the mean
\* and one above it
C14_Witness ==
    /\ pc = "ranked"
    /\ Len(tokens_metrics) = 3
    /\ RatSum(Column(tokens_metrics, "pvr")) = Rat(60, 1)
    /\ \E r, s, u \in Rows(ranked_tokens) :
        /\ r.pvr = Rat(10, 1) /\ r.pvr_score = 1 /\ r.pvrd_score = 1
        /\ s.pvr = Rat(20, 1) /\ s.pvr_score = -1 /\ s.pvrd_score = -1
        /\ u.pvr = Rat(30, 1) /\ u.pvr_score = -1 /\ u.pvrd_score = -1
----------------------------------------------------------------------------
(* The set analysis of visualize_additional_metrics on four name sets *)

MaxNames == 3

NamePool == {TokenName(i) : i \in 1..MaxNames}

InitIntersect ==
    /\ pc = "intersect"
    /\ cats \in [1..4 -> SUBSET NamePool]
    /\ parts = None
    /\ tokens_metrics = <<>> /\ ranked_tokens = <<>> /\ additional_metrics = <<>>
    /\ FetchIdle
    /\ RunIdle
    /\ UnitEmpty

Intersect ==
    /\ pc = "intersect"
    /\ parts' = Partitions(cats)
    /\ pc' = "intersected"
    /\ UNCHANGED <<cats, tokens_metrics, ranked_tokens, additional_metrics,
                   fetchVars, op, page, global_data, call_log, page_log,
                   top_tokens, all_tokens, written, raised, metric_calls, unitVars>>

NextIntersect == Intersect

SpecIntersect == InitIntersect /\ [][NextIntersect]_vars

\* C8: for any four top-30 name sets, all_four, exactly_three and exactly_two
\* are pairwise disjoint, and every name in any of them belongs to at least
\* one of the four input sets.
C8_DisjointPartitions ==
    pc = "intersected" =>
        /\ parts.all_four \cap parts.three = {}
        /\ parts.all_four \cap parts.two = {}
        /\ parts.three \cap parts.two = {}
        /\ (parts.all_four \cup parts.three \cup parts.two)
                \subseteq (cats[1] \cup cats[2] \cup cats[3] \cup cats[4])

C8_Witness ==
    /\ pc = "intersected"
    /\ parts.all_four # {}
    /\ parts.three # {}
    /\ parts.two # {}
    /\ cats[1] # cats[2]


\* the number of input sets a name belongs to
Memberships(x) == Cardinality({k \in 1..4 : x \in cats[k]})

\* C13: a name is in all_four iff it belongs to all four input sets, in
\* exactly_three iff it belongs to exactly three of them, and in exactly_two
\* iff it belongs to exactly two; a name of a single set is in none.
C13_ExactCounts ==
    pc = "intersected" =>
        /\ (parts.all_four \cup parts.three \cup parts.two) \subseteq NamePool
        /\ \A x \in NamePool :
            /\ x \in parts.all_four <=> Memberships(x) = 4
            /\ x \in parts.three <=> Memberships(x) = 3
            /\ x \in parts.two <=> Memberships(x) = 2

\* one name in all four sets, one in the last two only, one in a single set
C13_Witness ==
    /\ pc = "intersected"
    /\ \E x, y, z \in NamePool :
        /\ Memberships(x) = 4 /\ x \in parts.all_four
        /\ Memberships(y) = 2 /\ y \in cats[3] \cap cats[4] /\ y \in parts.two
        /\ Memberships(z) = 1
        /\ z \notin (parts.all_four \cup parts.three \cup parts.two)
    /\ parts.three = {}
----------------------------------------------------------------------------
(* get_top_tokens on one fetched page *)

\* symbols and names a fetched token may carry
SymbolPool ==
    {<<"u", "s", "d", "t">>,
     <<"U", "S", "D", "T">>,
     <<"u", "s", "d", "t", "x">>,
     <<"u", "s", "d">>,
     <<"b", "t", "c">>,
     <<"D", "a", "i">>}

DisplayNamePool ==
    {<<"T", "e", "t", "h", "e", "r">>,
     <<"W", "r", "a", "p", "p", "e", "d", " ", "B", "i", "t", "c", "o", "i", "n">>,
     <<"w", "r", "a", "p", "p", "e", "d", " ", "b", "i", "t", "c", "o", "i", "n">>,
     <<"W", "r", "a", "p", "p", "e", "d", " ", "B", "i", "t", "c", "o", "i", "n", " ", "2">>,
     <<"B", "i", "t", "c", "o", "i", "n">>,
     <<"W", "E", "T", "H">>}

PageTokens ==
    [symbol : SymbolPool, name : DisplayNamePool, current_price : {1},
     total_volume : {10}, market_cap : {100}, ath : {2}]

MaxPage == 2

InitFilter ==
    /\ pc = "filter"
    /\ \/ fetched = None
       \/ \E n \in 0..MaxPage : \E s \in [1..n -> PageTokens] : fetched = List(s)
    /\ top_tokens = None
    /\ all_tokens = <<>>
    /\ token = None /\ computed = None
    /\ op = "idle" /\ page = 0 /\ global_data = None /\ page_log = <<>>
    /\ call_log = <<>>
    /\ written = <<>> /\ raised = "none" /\ metric_calls = 0
    /\ FetchIdle
    /\ ResultsEmpty

FilterTokens ==
    /\ pc = "filter"
    /\ top_tokens' = get_top_tokens(fetched)
    /\ pc' = "filtered"
    /\ UNCHANGED <<fetched, token, computed, fetchVars, resultVars, op, page,
                   global_data, call_log, page_log, all_tokens, written, raised,
                   metric_calls>>

NextFilter == FilterTokens

SpecFilter == InitFilter /\ [][NextFilter]_vars

Uppers ==
    <<"A", "B", "C", "D", "E", "F", "G", "H", "I", "J", "K", "L", "M",
      "N", "O", "P", "Q", "R", "S", "T", "U", "V", "W", "X", "Y", "Z">>

\* the same character, or the two cases of one letter
SameLetter(a, b) ==
    a = b \/ \E k \in 1..26 : {a, b} = {Letters[k], Uppers[k]}

\* the whole of s is the whole of e, letter case apart
EqualsIgnoringCase(s, e) ==
    Len(s) = Len(e) /\ \A i \in 1..Len(s) : SameLetter(s[i], e[i])

Denied(t) ==
    \E e \in stablecoins :
        EqualsIgnoringCase(t.symbol, e) \/ EqualsIgnoringCase(t.name, e)

NotDenied(t) == ~Denied(t)

\* C9: on a fetched page get_top_tokens returns, in fetched order, exactly
\* the tokens of which neither symbol nor name equals a denylist entry letter
\* case apart: a match on either field excludes, case never matters, and a
\* symbol or name that only contains an entry is kept.
C9_ExactCaseInsensitiveFilter ==
    (pc = "filtered" /\ fetched # None) =>
        /\ top_tokens # None
        /\ top_tokens.py_list = SelectSeq(fetched.py_list, NotDenied)

C9_Witness ==
    /\ pc = "filtered"
    /\ fetched # None
    /\ Len(fetched.py_list) = 2
    /\ fetched.py_list[1].symbol = <<"u", "s", "d", "t", "x">>
    /\ fetched.py_list[1].name = <<"W", "r", "a", "p", "p", "e", "d", " ", "B", "i", "t", "c", "o", "i", "n", " ", "2">>
    /\ fetched.py_list[2].symbol = <<"b", "t", "c">>
    /\ fetched.py_list[2].name = <<"W", "r", "a", "p", "p", "e", "d", " ", "B", "i", "t", "c", "o", "i", "n">>
    /\ top_tokens = List(<<fetched.py_list[1]>>)

----------------------------------------------------------------------------
(* The server: what requests.get may answer *)

Statuses == {HTTP_OK, HTTP_TOO_MANY_REQUESTS, 500}

\* bodies of /global
GlobalBodies ==
    {[data |-> [total_volume |-> [usd |-> 0]]],
     [data |-> [total_volume |-> [usd |-> 60]]],
     [data |-> [total_volume |-> [btc |-> 1]]],
     [data |-> [active_cryptocurrencies |-> 1]],
     [data |-> <<>>],
     [data |-> None],
     [status |-> [error_code |-> 1]],
     <<>>}

\* tokens of /coins/markets
Market ==
    {[symbol |-> <<"b", "t", "c">>, name |-> <<"B", "i", "t", "c", "o", "i", "n">>, current_price |-> 2,
      total_volume |-> 30, market_cap |-> 100, ath |-> 4,
      price_change_percentage_7d_in_currency |-> Num(5)],
     [symbol |-> <<"u", "s", "d", "t">>, name |-> <<"T", "e", "t", "h", "e", "r">>, current_price |-> 1,
      total_volume |-> 20, market_cap |-> 20, ath |-> 1,
      price_change_percentage_7d_in_currency |-> Num(0)],
     [symbol |-> <<"x", "y", "z">>, name |-> <<"X", "y", "z">>, current_price |-> 0,
      total_volume |-> 10, market_cap |-> 0, ath |-> 0,
      price_change_percentage_7d_in_currency |-> None]}

MaxPageLen == 2

\* a page lists each of its tokens once
Listing(n) == {s \in [1..n -> Market] : \A i, j \in 1..n : s[i] = s[j] => i = j}

PageBodies == UNION {{List(s) : s \in Listing(n)} : n \in 0..MaxPageLen}

ErrorBody == [status |-> [error_code |-> 1]]

Responses(e) ==
    {[status_code |-> s, json |-> ErrorBody] : s \in Statuses \ {HTTP_OK}}
        \cup {[status_code |-> HTTP_OK, json |-> b] :
                b \in IF e = "global" THEN GlobalBodies ELSE PageBodies}

----------------------------------------------------------------------------
(* fetch_with_rate_limit, one requests.get or time.sleep at a time *)

\* the call fetch_with_rate_limit(url, params) begins
CallFetch(e) ==
    /\ fpc' = "request"
    /\ endpoint' = e
    /\ reqs' = <<>>
    /\ response' = None
    /\ clock' = 0
    /\ ret' = None

FetchOver ==
    /\ fpc' = "idle"
    /\ UNCHANGED <<endpoint, reqs, response, clock, ret>>

\* line 10
FirstRequest ==
    /\ fpc = "request"
    /\ \E r \in Responses(endpoint) :
        /\ response' = r
        /\ reqs' = Append(reqs, [status_code |-> r.status_code,
                               json |-> r.json, at |-> clock])
        /\ fpc' = IF ShouldRetry(r) THEN "sleep" ELSE "check"
    /\ UNCHANGED <<endpoint, clock, ret, runVars, resultVars, unitVars>>

\* line 15
Sleep ==
    /\ fpc = "sleep"
    /\ clock' = clock + COOLDOWN
    /\ fpc' = "retry"
    /\ UNCHANGED <<endpoint, reqs, response, ret, runVars, resultVars, unitVars>>

\* line 16
SecondRequest ==
    /\ fpc = "retry"
    /\ \E r \in Responses(endpoint) :
        /\ response' = r
        /\ reqs' = Append(reqs, [status_code |-> r.status_code,
                               json |-> r.json, at |-> clock])
    /\ fpc' = "check"
    /\ UNCHANGED <<endpoint, clock, ret, runVars, resultVars, unitVars>>

\* lines 18-22
ReturnFetch ==
    /\ fpc = "check"
    /\ ret' = FetchResult(response)
    /\ fpc' = "returned"
    /\ UNCHANGED <<endpoint, reqs, response, clock, runVars, resultVars, unitVars>>

----------------------------------------------------------------------------
(* rank_tier and rank_all_tiers *)

Tiers == 1..3

GLOBAL_URL == "https://api.coingecko.com/api/v3/global"

MARKETS_URL == "https://api.coingecko.com/api/v3/coins/markets"

FAILED_GLOBAL == "Failed to fetch global market data."

FAILED_TIER == "Failed to fetch token data for Tier {tier_number}."

FAILED_ALL_TIERS == "Failed to fetch token data from one or more tiers."

TOP_30_HEADING == "### Top 30 Ranked Tokens by Final Score"

ADDITIONAL_HEADING == "### Tokens with Additional Metrics"

\* "if global_data:" (lines 275 and 322)
GlobalAvailableMutAlways(gd) == TRUE

GlobalAvailable(gd) == Truthy(gd)

\* "if top_tokens_1: all_tokens.extend(top_tokens_1)" (lines 327-338)
ExtendMutReplaces(all, top) == IF Truthy(top) THEN top.py_list ELSE all

Extend(all, top) == IF Truthy(top) THEN all \o top.py_list ELSE all

\* the rows appended at lines 295-300 and 354-359
AdditionalRow(t, m) ==
    [Token |-> t.name, potential_gains |-> m.potential_gains,
     price_change_7d |-> m.price_change_7d, mc_vol_ratio |-> m.mc_vol_ratio]

FirstRaised(results) ==
    LET bad == {i \in DOMAIN results : results[i].raised # "none"}
    IN  IF bad = {} THEN 0 ELSE CHOOSE i \in bad : \A j \in bad : i <= j

\* lines 280-308 and 342-367: metrics, ranking, additional metrics and the
\* intersection analysis over one list of tokens; the first exception a call
\* raises ends the run
Pipeline(tokens) ==
    LET metrics == [i \in DOMAIN tokens |-> calculate_metrics(tokens[i], global_data)]
        additional == [i \in DOMAIN tokens |-> calculate_additional_metrics(tokens[i])]
        m == FirstRaised(metrics)
        a == FirstRaised(additional)
        tm == [i \in DOMAIN tokens |-> metrics[i].value]
        df == [i \in DOMAIN tokens |-> AdditionalRow(tokens[i], additional[i].value)]
    IN  IF m # 0
        THEN /\ raised' = metrics[m].raised
             /\ metric_calls' = m
             /\ UNCHANGED <<written, resultVars>>
        ELSE /\ tokens_metrics' = tm
             /\ ranked_tokens' \in rank_tokens(tm)
             /\ IF a # 0
                THEN /\ raised' = additional[a].raised
                     /\ metric_calls' = Len(tokens) + a
                     /\ written' = Append(written, TOP_30_HEADING)
                     /\ UNCHANGED <<additional_metrics, cats, parts>>
                ELSE /\ raised' = "none"
                     /\ metric_calls' = 2 * Len(tokens)
                     /\ written' = written \o <<TOP_30_HEADING, ADDITIONAL_HEADING>>
                     /\ additional_metrics' = df
                     /\ cats' \in TopCategories(df, ranked_tokens')
                     /\ parts' = Partitions(cats')

\* lines 161-177: a button of main() starts one run of the script
StartRankTier ==
    /\ pc = "idle"
    /\ \E t \in Tiers : page' = t
    /\ op' = "rank_tier"
    /\ pc' = "get_global_data"
    /\ call_log' = Append(call_log, [url |-> GLOBAL_URL, page |-> 0])
    /\ CallFetch("global")
    /\ UNCHANGED <<global_data, page_log, top_tokens, all_tokens, written,
                   raised, metric_calls, resultVars, unitVars>>

StartRankAllTiers ==
    /\ pc = "idle"
    /\ page' = 0
    /\ op' = "rank_all_tiers"
    /\ pc' = "get_global_data"
    /\ call_log' = Append(call_log, [url |-> GLOBAL_URL, page |-> 0])
    /\ CallFetch("global")
    /\ UNCHANGED <<global_data, page_log, top_tokens, all_tokens, written,
                   raised, metric_calls, resultVars, unitVars>>

\* lines 273-277 and 320-326, 370-372
GlobalDataReturned ==
    /\ pc = "get_global_data"
    /\ fpc = "returned"
    /\ global_data' = get_global_data(ret)
    /\ IF GlobalAvailable(global_data')
       THEN /\ pc' = "get_top_tokens"
            /\ page' = IF op = "rank_tier" THEN page ELSE 1
            /\ call_log' = Append(call_log, [url |-> MARKETS_URL, page |-> page'])
            /\ CallFetch("markets")
            /\ UNCHANGED written
       ELSE /\ pc' = "done"
            /\ written' = Append(written, FAILED_GLOBAL)
            /\ FetchOver
            /\ UNCHANGED <<page, call_log>>
    /\ UNCHANGED <<op, page_log, top_tokens, all_tokens, raised, metric_calls,
                   resultVars, unitVars>>

\* lines 277-278 and 310-311
TierTokensReturned ==
    /\ pc = "get_top_tokens"
    /\ op = "rank_tier"
    /\ fpc = "returned"
    /\ top_tokens' = get_top_tokens(ret)
    /\ IF Truthy(top_tokens')
       THEN /\ pc' = "pipeline"
            /\ UNCHANGED written
       ELSE /\ pc' = "done"
            /\ written' = Append(written, FAILED_TIER)
    /\ page_log' = Append(page_log, [page |-> page, tokens |-> ret])
    /\ FetchOver
    /\ UNCHANGED <<op, page, global_data, call_log, all_tokens,
                   raised, metric_calls, resultVars, unitVars>>

\* lines 326-340 and 369-370
AllTiersTokensReturned ==
    /\ pc = "get_top_tokens"
    /\ op = "rank_all_tiers"
    /\ fpc = "returned"
    /\ top_tokens' = get_top_tokens(ret)
    /\ all_tokens' = Extend(all_tokens, top_tokens')
    /\ page_log' = Append(page_log, [page |-> page, tokens |-> ret])
    /\ IF page < 3
       THEN /\ page' = page + 1
            /\ pc' = "get_top_tokens"
            /\ call_log' = Append(call_log, [url |-> MARKETS_URL, page |-> page'])
            /\ CallFetch("markets")
            /\ UNCHANGED written
       ELSE /\ IF all_tokens' # <<>>
               THEN /\ pc' = "pipeline"
                    /\ UNCHANGED written
               ELSE /\ pc' = "done"
                    /\ written' = Append(written, FAILED_ALL_TIERS)
            /\ FetchOver
            /\ UNCHANGED <<page, call_log>>
    /\ UNCHANGED <<op, global_data, raised, metric_calls, resultVars, unitVars>>

\* lines 280-308
RankTier ==
    /\ pc = "pipeline"
    /\ op = "rank_tier"
    /\ Pipeline(top_tokens.py_list)
    /\ pc' = "done"
    /\ UNCHANGED <<op, page, global_data, call_log, page_log, top_tokens,
                   all_tokens, fetchVars, unitVars>>

\* lines 342-367
RankAllTiers ==
    /\ pc = "pipeline"
    /\ op = "rank_all_tiers"
    /\ Pipeline(all_tokens)
    /\ pc' = "done"
    /\ UNCHANGED <<op, page, global_data, call_log, page_log, top_tokens,
                   all_tokens, fetchVars, unitVars>>

\* Streamlit runs the script afresh on the next interaction
Rerun ==
    /\ pc = "done"
    /\ pc' = "idle"
    /\ fpc' = "idle" /\ endpoint' = "none" /\ reqs' = <<>> /\ response' = None
    /\ clock' = 0 /\ ret' = None
    /\ op' = "idle" /\ page' = 0 /\ global_data' = None /\ call_log' = <<>>
    /\ page_log' = <<>> /\ top_tokens' = None /\ all_tokens' = <<>>
    /\ written' = <<>> /\ raised' = "none" /\ metric_calls' = 0
    /\ tokens_metrics' = <<>> /\ ranked_tokens' = <<>>
    /\ additional_metrics' = <<>> /\ cats' = <<>> /\ parts' = None
    /\ UNCHANGED unitVars

Init ==
    /\ pc = "idle"
    /\ FetchIdle
    /\ RunIdle
    /\ ResultsEmpty
    /\ UnitEmpty

Next ==
    \/ StartRankTier
    \/ StartRankAllTiers
    \/ FirstRequest
    \/ Sleep
    \/ SecondRequest
    \/ ReturnFetch
    \/ GlobalDataReturned
    \/ TierTokensReturned
    \/ AllTiersTokensReturned
    \/ RankTier
    \/ RankAllTiers
    \/ Rerun

Spec == Init /\ [][Next]_vars

----------------------------------------------------------------------------
(* Properties of the fetch boundary and of a run *)

LastRequest == reqs[Len(reqs)]

\* C1: in every call of fetch_with_rate_limit at most two requests are sent;
\* a second one is sent exactly when the first response is 429, and no sooner
\* than the 60-unit cooldown after the first; the call returns the payload of
\* the last response received when its status is 200 and None otherwise.
C1_RateLimitContract ==
    /\ Len(reqs) <= 2
    /\ Len(reqs) = 2 =>
        /\ reqs[1].status_code = 429
        /\ reqs[2].at >= reqs[1].at + 60
    /\ fpc \in {"check", "returned"} =>
        /\ Len(reqs) >= 1
        /\ Len(reqs) = 2 <=> reqs[1].status_code = 429
    /\ fpc = "returned" =>
        ret = IF LastRequest.status_code = 200 THEN LastRequest.json ELSE None

C1_Witness ==
    /\ fpc = "returned"
    /\ endpoint = "markets"
    /\ Len(reqs) = 2
    /\ reqs[1].status_code = 429
    /\ reqs[2].status_code = 200
    /\ reqs[2].at = 60
    /\ ret = reqs[2].json
    /\ ret # None

GlobalFailed == pc \in {"get_top_tokens", "pipeline", "done"} /\ global_data = None

\* C2: the first fetch of a run is the global one, and when get_global_data
\* returned None the run ends with the failure message alone: no token page
\* was requested, neither metric function was called, and no ranking or
\* intersection exists.
C2_GlobalFirst ==
    /\ call_log # <<>> => call_log[1].url = GLOBAL_URL
    /\ GlobalFailed =>
        /\ pc = "done"
        /\ written = <<FAILED_GLOBAL>>
        /\ \A i \in DOMAIN call_log : call_log[i].url # MARKETS_URL
        /\ page_log = <<>>
        /\ metric_calls = 0
        /\ raised = "none"
        /\ tokens_metrics = <<>>
        /\ ranked_tokens = <<>>
        /\ additional_metrics = <<>>
        /\ parts = None

C2_Witness ==
    /\ GlobalFailed
    /\ op = "rank_all_tiers"
    /\ Len(reqs) = 1
    /\ reqs[1].status_code = 200
    /\ written = <<FAILED_GLOBAL>>

\* C3: a run of rank_tier or rank_all_tiers never raises, whatever the fetches
\* answer.
C3_NeverRaises == raised = "none"

\* a 200 /global payload whose 'data' has no total_volume, and a token to score
C3_Witness ==
    /\ pc = "done"
    /\ op = "rank_tier"
    /\ global_data = [active_cryptocurrencies |-> 1]
    /\ Truthy(top_tokens)
    /\ raised = "KeyError"
    /\ metric_calls = 1
    /\ ranked_tokens = <<>>
    /\ written = <<>>

----------------------------------------------------------------------------
(* The pooled run of rank_all_tiers *)

\* what a fetched page contributes: its filtered tokens, and nothing when the
\* fetch returned None
Contribution(e) ==
    IF e.tokens = None THEN <<>> ELSE get_top_tokens(e.tokens).py_list

RECURSIVE PoolOf(_)
PoolOf(log) ==
    IF log = <<>> THEN <<>>
    ELSE PoolOf(SubSeq(log, 1, Len(log) - 1)) \o Contribution(log[Len(log)])

\* the global data carry the market-wide volume
HasGlobalVolume ==
    /\ "total_volume" \in DOMAIN global_data
    /\ "usd" \in DOMAIN global_data["total_volume"]

AllTiersUnderWay ==
    /\ op = "rank_all_tiers"
    /\ pc \in {"get_top_tokens", "pipeline", "done"}
    /\ GlobalAvailable(global_data)

\* C12: once get_global_data has succeeded, rank_all_tiers requests pages 1, 2
\* and 3 in that order whatever the earlier pages returned; all_tokens is the
\* concatenation, in page order, of the filtered tokens of the pages that were
\* available; when the pool is non-empty the metrics, the ranking, the
\* additional metrics and the intersection are computed once over the whole
\* pool, and the failure message is written exactly when the pool is empty.
C12_PooledTiers ==
    AllTiersUnderWay =>
        \A pool \in {PoolOf(page_log)} :
            /\ Len(call_log) <= 4
            /\ \A i \in DOMAIN call_log \ {1} :
                    call_log[i] = [url |-> MARKETS_URL, page |-> i - 1]
            /\ \A i \in DOMAIN page_log : page_log[i].page = i
            /\ all_tokens = pool
            /\ pc = "pipeline" => pool # <<>>
            /\ pc \in {"pipeline", "done"} =>
                    Len(call_log) = 4 /\ Len(page_log) = 3
            /\ pc = "done" =>
                /\ FAILED_ALL_TIERS \in Range(written) <=> pool = <<>>
                /\ pool = <<>> =>
                    /\ metric_calls = 0
                    /\ ranked_tokens = <<>>
                    /\ parts = None
                /\ (pool # <<>> /\ HasGlobalVolume) =>
                    /\ raised = "none"
                    /\ metric_calls = 2 * Len(pool)
                    /\ tokens_metrics
                         = [i \in DOMAIN pool |->
                                calculate_metrics(pool[i], global_data).value]
                    /\ ranked_tokens \in rank_tokens(tokens_metrics)
                    /\ additional_metrics
                         = [i \in DOMAIN pool |->
                                AdditionalRow(pool[i],
                                    calculate_additional_metrics(pool[i]).value)]
                    /\ cats \in TopCategories(additional_metrics, ranked_tokens)
                    /\ parts = Partitions(cats)

\* page 1 unavailable, page 2 with a denied token, page 3 available: the pool
\* holds two tokens and one of them scores above the pooled mean
C12_Witness ==
    /\ AllTiersUnderWay
    /\ pc = "done"
    /\ HasGlobalVolume
    /\ page_log[1].tokens = None
    /\ page_log[2].tokens # None
    /\ Len(page_log[2].tokens.py_list) = 2
    /\ Len(Contribution(page_log[2])) = 1
    /\ Len(Contribution(page_log[3])) = 1
    /\ Len(all_tokens) = 2
    /\ all_tokens[1] # all_tokens[2]
    /\ Len(ranked_tokens) = 2
    /\ \E i \in DOMAIN ranked_tokens : ranked_tokens[i].pvr_score = 1
    /\ parts # None

====
